---- MODULE Spec2Model ----
(***************************************************************************)
(* Model of the user/task HTTP service of src/main.py: two collection      *)
(* documents (users.json, tasks.json) rewritten whole by every mutating    *)
(* request, and the request handlers that read, check and rewrite them.    *)
(*                                                                         *)
(* Strings are sequences of one-character strings, so that length and      *)
(* "contains" are computed.  Python's None is the record None; a present   *)
(* value v is Some(v).                                                     *)
(*                                                                         *)
(* Two specifications:                                                     *)
(*   SeqSpec  requests run one at a time, each handler from its first line *)
(*            to its return or raise as one step;                          *)
(*   Spec     NumProcs requests in flight, interleaved at the awaits of    *)
(*            the handlers (each read_file, and the open and the write of  *)
(*            write_file).                                                 *)
(***************************************************************************)
EXTENDS Integers, Sequences, FiniteSets, TLC

VARIABLES
    usersFile,  \* the document Users_File
    tasksFile,  \* the document Tasks_File
    up,         \* the application is started (init_files has run)
    proc,       \* per process: the request it serves and how far it got
    served,     \* requests begun so far
    ver         \* per document: write_file calls completed on it so far

vars == <<usersFile, tasksFile, up, proc, served, ver>>

---------------------------------------------------------------------------
(* Bounds *)

\* requests in flight at once under Spec
NumProcs == 2

\* the ids a request path names: 1..MaxId
MaxId == 3

\* requests served in one behaviour of SeqSpec
MaxSeqReqs == 4

\* requests served in one behaviour of Spec
MaxReqs == 3

Procs == 1..NumProcs

---------------------------------------------------------------------------
(* Values *)

None == [some |-> FALSE]
Some(v) == [some |-> TRUE, val |-> v]

\* Python truthiness of an optional str / optional int
TruthyStr(o) == o.some /\ o.val # <<>>
TruthyInt(o) == o.some /\ o.val # 0

Contains(s, ch) == \E i \in DOMAIN s : s[i] = ch

\* re.match(r"[^@]+@[^@]+\.[^@]+", s): a run without "@", an "@", a run
\* without "@" whose last character before the final run is ".", and at
\* least one more character that is not "@".
EmailRegex(s) ==
    \E i \in DOMAIN s : \E j \in DOMAIN s :
        /\ s[i] = "@" /\ i >= 2
        /\ \A k \in 1..(i - 1) : s[k] # "@"
        /\ s[j] = "." /\ j >= i + 2 /\ j < Len(s)
        /\ \A k \in (i + 1)..(j + 1) : s[k] # "@"

N0 == << >>
N1 == <<"a", "l">>
N2 == <<"b", "o">>
E1 == <<"a", "@", "b", ".", "c">>
E2 == <<"d", "@", "e", ".", "f">>
E3 == <<"g", "@", "h", ".", "i">>
ENoAt == <<"a", "b", ".", "c">>
ENoDot == <<"a", "@", "b">>
P1 == <<"s", "e", "c", "r", "e", "t">>
P2 == <<"h", "u", "n", "t", "e", "r", "2">>
PShort == <<"a", "b", "c">>
T1 == <<"t", "1">>
T2 == <<"t", "2">>
D1 == <<"d", "1">>

---------------------------------------------------------------------------
(* Documents and records *)

\* A collection document on disk: "ok" holds json.dumps(recs, indent=4);
\* "empty" is a document opened with mode "w" and not yet written; "missing"
\* does not exist; "corrupt" holds len characters that json.loads rejects.
Doc(recs) == [st |-> "ok", recs |-> recs]
EmptyDoc == [st |-> "empty", recs |-> << >>]
MissingDoc == [st |-> "missing", recs |-> << >>]
CorruptDoc(len) == [st |-> "corrupt", recs |-> << >>, len |-> len]

\* json.loads(await fs.read()) succeeds only on a complete document
Readable(doc) == doc.st = "ok"
read_file(doc) == doc.recs

IdsOf(recs) == {recs[i].id : i \in DOMAIN recs}
Max(S) == CHOOSE m \in S : \A x \in S : x <= m

\* NextId with the "+ 1" forgotten
NextId_no_increment(recs) == IF recs = << >> THEN 0 ELSE Max(IdsOf(recs))

\* max([r["id"] for r in recs], default=0) + 1
NextId(recs) == (IF recs = << >> THEN 0 ELSE Max(IdsOf(recs))) + 1

\* WithoutId dropping by position: the first record goes when the id is there
WithoutId_first(recs, id) ==
    IF \E i \in DOMAIN recs : recs[i].id = id THEN Tail(recs) ELSE recs

\* [r for r in recs if r["id"] != id]
RECURSIVE WithoutId(_, _)
WithoutId(recs, id) ==
    IF recs = << >> THEN << >>
    ELSE IF Head(recs).id = id THEN WithoutId(Tail(recs), id)
         ELSE <<Head(recs)>> \o WithoutId(Tail(recs), id)

\* index of the first record a "for r in recs: if r["id"] == id" loop reaches
FirstIdx(recs, id) ==
    CHOOSE i \in DOMAIN recs :
        /\ recs[i].id = id
        /\ \A k \in 1..(i - 1) : recs[k].id # id

HasId(recs, id) == \E i \in DOMAIN recs : recs[i].id = id

---------------------------------------------------------------------------
(* Responses.  A handler's outcome: the HTTP status, the error detail, the *)
(* returned body, and whether and what it hands to write_file.             *)

Detail(text, args) == [text |-> text, args |-> args]
NoDetail == Detail("", << >>)
NoBody == [kind |-> "none"]

Return(body, data) ==
    [status |-> 200, detail |-> NoDetail, body |-> body, write |-> TRUE, data |-> data]
ReturnRead(body) ==
    [status |-> 200, detail |-> NoDetail, body |-> body, write |-> FALSE, data |-> << >>]
Raise(status, detail) ==
    [status |-> status, detail |-> detail, body |-> NoBody, write |-> FALSE, data |-> << >>]

ValidationError(detail) == Raise(400, detail)
NotFoundError(detail) == Raise(404, detail)
\* FastAPI's answer to a body that fails a Body(...) constraint
RequestValidationError == Raise(422, Detail("validation error", << >>))
\* an exception no handler catches (json.loads on an incomplete document)
ServerError == Raise(500, Detail("Internal Server Error", << >>))

Message(text, id) == [message |-> Detail(text, <<id>>)]

---------------------------------------------------------------------------
(* Handlers, from the collection they read to their outcome *)

\* Body(..., min_length=1), Body(..., regex=...), Body(..., min_length=6)
create_user_valid(name, email, password) ==
    Len(name) >= 1 /\ EmailRegex(email) /\ Len(password) >= 6

\* Body(...), Body(..., regex=...), Body(..., min_length=6)
register_user_valid(name, email, password) ==
    EmailRegex(email) /\ Len(password) >= 6

\* Body(..., min_length=1)
create_task_valid(title) == Len(title) >= 1

EmailTaken(users, email) == \E i \in DOMAIN users : users[i].email = email

\* get_users: the whole collection as read
get_users_h(users) == ReturnRead([kind |-> "list", recs |-> users])

\* get_user_h answering with the first record whatever the id
get_user_h_first(users, user_id) ==
    IF users = << >>
    THEN NotFoundError(Detail("User with ID {} not found", <<user_id>>))
    ELSE ReturnRead(users[1])

\* get_user from "user = next(...)" on
get_user_h(users, user_id) ==
    IF ~HasId(users, user_id)
    THEN NotFoundError(Detail("User with ID {} not found", <<user_id>>))
    ELSE ReturnRead(users[FirstIdx(users, user_id)])

\* create_user_h without the "Email already registered" check
create_user_h_unchecked(users, name, email, password) ==
    LET user_id == NextId(users)
        new_user == [id |-> user_id, name |-> name, email |-> email,
                     password |-> password]
    IN Return([id |-> user_id, name |-> name, email |-> email],
              Append(users, new_user))

create_user_h(users, name, email, password) ==
    IF EmailTaken(users, email)
    THEN ValidationError(Detail("Email already registered", << >>))
    ELSE LET user_id == NextId(users)
             new_user == [id |-> user_id, name |-> name, email |-> email,
                          password |-> password]
         IN Return([id |-> user_id, name |-> name, email |-> email],
                   Append(users, new_user))

register_user_h(users, name, email, password) ==
    IF EmailTaken(users, email)
    THEN ValidationError(Detail("Email already registered", << >>))
    ELSE LET user_id == NextId(users)
             new_user == [id |-> user_id, name |-> name, email |-> email,
                          password |-> password]
         IN Return([id |-> user_id, name |-> name, email |-> email],
                   Append(users, new_user))

\* update_user_h writing the list back before it raises: the fields set
\* before the failing check are persisted with the 400
update_user_h_eager(users, user_id, name, email, password) ==
    IF ~HasId(users, user_id)
    THEN NotFoundError(Detail("User with ID {} not found", <<user_id>>))
    ELSE
      LET i == FirstIdx(users, user_id)
          u1 == IF TruthyStr(name) THEN [users[i] EXCEPT !.name = name.val]
                ELSE users[i]
          u2 == IF TruthyStr(email) THEN [u1 EXCEPT !.email = email.val] ELSE u1
          u3 == IF TruthyStr(password) THEN [u2 EXCEPT !.password = password.val]
                ELSE u2
      IN IF TruthyStr(email)
            /\ (~Contains(email.val, "@") \/ ~Contains(email.val, "."))
         THEN [ValidationError(Detail("Invalid email format", << >>))
                  EXCEPT !.write = TRUE, !.data = [users EXCEPT ![i] = u1]]
         ELSE IF TruthyStr(password) /\ Len(password.val) < 6
         THEN [ValidationError(
                   Detail("Password must have at least 6 characters", << >>))
                  EXCEPT !.write = TRUE, !.data = [users EXCEPT ![i] = u2]]
         ELSE Return(u3, [users EXCEPT ![i] = u3])

update_user_h(users, user_id, name, email, password) ==
    IF ~HasId(users, user_id)
    THEN NotFoundError(Detail("User with ID {} not found", <<user_id>>))
    ELSE
      LET i == FirstIdx(users, user_id)
          u1 == IF TruthyStr(name) THEN [users[i] EXCEPT !.name = name.val]
                ELSE users[i]
      IN IF TruthyStr(email)
            /\ (~Contains(email.val, "@") \/ ~Contains(email.val, "."))
         THEN ValidationError(Detail("Invalid email format", << >>))
         ELSE
           LET u2 == IF TruthyStr(email) THEN [u1 EXCEPT !.email = email.val]
                     ELSE u1
           IN IF TruthyStr(password) /\ Len(password.val) < 6
              THEN ValidationError(
                       Detail("Password must have at least 6 characters", << >>))
              ELSE
                LET u3 == IF TruthyStr(password)
                          THEN [u2 EXCEPT !.password = password.val]
                          ELSE u2
                IN Return(u3, [users EXCEPT ![i] = u3])

delete_user_h(users, user_id) ==
    LET updated_users == WithoutId(users, user_id)
    IN IF Len(updated_users) = Len(users)
       THEN NotFoundError(Detail("User with ID {} not found", <<user_id>>))
       ELSE Return(Message("User with ID {} deleted", user_id), updated_users)

\* validate_user: TRUE when it returns, FALSE when it raises
validate_user(users, user_id) == HasId(users, user_id)
validate_user_error(user_id) ==
    ValidationError(Detail("No user exists with ID {}", <<user_id>>))

\* create_task's "if user_id:" : whether validate_user is awaited at all
create_task_validates(user_id) == TruthyInt(user_id)

\* create_task from "tasks = await read_file(Tasks_File)" on
create_task_h(tasks, title, description, user_id) ==
    LET task_id == NextId(tasks)
        new_task == [id |-> task_id, title |-> title,
                     description |-> description, user_id |-> user_id]
    IN Return(new_task, Append(tasks, new_task))

\* update_task_h with "if description:" in place of "if description is not
\* None": an empty description is dropped like an empty title
update_task_h_truthy(tasks, task_id, title, description) ==
    IF ~HasId(tasks, task_id)
    THEN NotFoundError(Detail("Task with ID {} not found", <<task_id>>))
    ELSE
      LET i == FirstIdx(tasks, task_id)
          t1 == IF TruthyStr(title) THEN [tasks[i] EXCEPT !.title = title.val]
                ELSE tasks[i]
          t2 == IF TruthyStr(description)
                THEN [t1 EXCEPT !.description = description]
                ELSE t1
      IN Return(t2, [tasks EXCEPT ![i] = t2])

\* update_task up to "if user_id is not None": the task with title and
\* description applied (data holds the in-memory list), or NotFound
update_task_h(tasks, task_id, title, description) ==
    IF ~HasId(tasks, task_id)
    THEN NotFoundError(Detail("Task with ID {} not found", <<task_id>>))
    ELSE
      LET i == FirstIdx(tasks, task_id)
          t1 == IF TruthyStr(title) THEN [tasks[i] EXCEPT !.title = title.val]
                ELSE tasks[i]
          t2 == IF description.some THEN [t1 EXCEPT !.description = description]
                ELSE t1
      IN Return(t2, [tasks EXCEPT ![i] = t2])

\* update_task_set_user assigning the user_id to every task of the list
update_task_set_user_all(mem, task_id, user_id) ==
    LET i == FirstIdx(mem, task_id)
        all == [j \in DOMAIN mem |-> [mem[j] EXCEPT !.user_id = user_id]]
    IN Return(all[i], all)

\* update_task's "task["user_id"] = user_id" after validate_user returned
update_task_set_user(mem, task_id, user_id) ==
    LET i == FirstIdx(mem, task_id)
        t3 == [mem[i] EXCEPT !.user_id = user_id]
    IN Return(t3, [mem EXCEPT ![i] = t3])

delete_task_h(tasks, task_id) ==
    LET updated_tasks == WithoutId(tasks, task_id)
    IN IF Len(updated_tasks) = Len(tasks)
       THEN NotFoundError(Detail("Task with ID {} not found", <<task_id>>))
       ELSE Return(Message("Task with ID {} deleted", task_id), updated_tasks)

\* Body(..., regex=...), Body(...)
login_valid(email, password) == EmailRegex(email)

\* the users a login with this email and password matches
LoginMatches(users, email, password) ==
    {i \in DOMAIN users :
        users[i].email = email /\ users[i].password = password}

\* the user next(...) returns: the first match
LoginFirst(users, email, password) ==
    CHOOSE i \in LoginMatches(users, email, password) :
        \A k \in LoginMatches(users, email, password) : i <= k

\* login_h telling a wrong password from an unknown email
login_h_leaky(users, email, password) ==
    IF LoginMatches(users, email, password) # {}
    THEN ReturnRead([message |-> Detail("Login successful", << >>),
                     user_id |-> users[LoginFirst(users, email, password)].id])
    ELSE IF EmailTaken(users, email)
    THEN ValidationError(Detail("Invalid password", << >>))
    ELSE ValidationError(Detail("Invalid email or password", << >>))

\* login from "user = next(...)" on: the first user with this email and
\* password
login_h(users, email, password) ==
    IF LoginMatches(users, email, password) # {}
    THEN ReturnRead([message |-> Detail("Login successful", << >>),
                     user_id |-> users[LoginFirst(users, email, password)].id])
    ELSE ValidationError(Detail("Invalid email or password", << >>))

\* create_task as a whole: users and tasks are what its two reads return
create_task_run(users, tasks, title, description, user_id) ==
    IF create_task_validates(user_id) /\ ~validate_user(users, user_id.val)
    THEN validate_user_error(user_id.val)
    ELSE create_task_h(tasks, title, description, user_id)

\* update_task as a whole: tasks is read first, users inside validate_user
update_task_run(users, tasks, task_id, title, description, user_id) ==
    LET r1 == update_task_h(tasks, task_id, title, description)
    IN IF r1.status # 200 \/ ~user_id.some THEN r1
       ELSE IF ~validate_user(users, user_id.val)
            THEN validate_user_error(user_id.val)
            ELSE update_task_set_user(r1.data, task_id, user_id)

---------------------------------------------------------------------------
(* write_file and the text it writes *)

\* len(str(n)) for the integers of the model
IntLen(n) == IF n < 0 THEN 2 ELSE 1

\* len(json.dumps(v)) of an optional string / optional integer
OptStrLen(o) == IF o.some THEN Len(o.val) + 2 ELSE 4
OptIntLen(o) == IF o.some THEN IntLen(o.val) ELSE 4

\* one record of json.dumps(recs, indent=4): "    {" newline, four lines
\* '        "key": value' joined by "," newline, newline "    }"
RecLen(r) ==
    IF "email" \in DOMAIN r
    THEN 6 + (14 + IntLen(r.id)) + 2 + (16 + Len(r.name) + 2) + 2
           + (17 + Len(r.email) + 2) + 2 + (20 + Len(r.password) + 2) + 6
    ELSE 6 + (14 + IntLen(r.id)) + 2 + (17 + Len(r.title) + 2) + 2
           + (23 + OptStrLen(r.description)) + 2 + (19 + OptIntLen(r.user_id)) + 6

RECURSIVE SumRecLen(_)
SumRecLen(recs) ==
    IF recs = << >> THEN 0 ELSE RecLen(Head(recs)) + SumRecLen(Tail(recs))

\* len(json.dumps(recs, indent=4))
JsonLen(recs) ==
    IF recs = << >> THEN 2
    ELSE 2 + SumRecLen(recs) + 2 * (Len(recs) - 1) + 2

DocLen(doc) ==
    IF doc.st = "ok" THEN JsonLen(doc.recs)
    ELSE IF doc.st = "corrupt" THEN doc.len ELSE 0

\* write_open with mode "r+": the document keeps its text until the write
write_open_keep(doc) == doc

\* aiofiles.open(file_path, mode="w"): the document is truncated
write_open(doc) == EmptyDoc

\* write_flush on a document opened with mode "a": the text is appended
write_flush_append(doc, data) == Doc(doc.recs \o data)

\* fs.write(json.dumps(data, indent=4)) and the close that flushes it: the
\* text lands at offset 0 of whatever the document holds by then; what another
\* writer put there after this writer's open stays behind the text when it is
\* longer, and the document no longer parses.
write_flush(doc, data) ==
    IF JsonLen(data) >= DocLen(doc) THEN Doc(data) ELSE CorruptDoc(DocLen(doc))

\* write_file with nothing running between its open and its write
write_file(doc, data) == write_flush(write_open(doc), data)

\* init_file without the os.path.exists test: "[]" is written every time
init_file_reset(doc) == Doc(<< >>)

\* init_files, for one document
init_file(doc) == IF doc.st = "missing" THEN Doc(<< >>) ELSE doc

---------------------------------------------------------------------------
(* Request inputs: <<name, email, password>> and <<title, description,    *)
(* user_id>>; the Seq sets are served under SeqSpec, the Race sets (the    *)
(* inputs that pass every check) under Spec.                               *)

SeqCreateUserIn ==
    {<<N1, E1, P1>>, <<N1, E2, P1>>, <<N1, E3, P1>>, <<N0, E1, P1>>,
     <<N1, ENoAt, P1>>, <<N1, E1, PShort>>}
SeqRegisterUserIn ==
    {<<N0, E1, P1>>, <<N1, E2, P1>>, <<N1, ENoDot, P1>>, <<N1, E1, PShort>>}
SeqUpdateUserIn ==
    {<<Some(N2), None, None>>, <<Some(N0), None, None>>,
     <<None, Some(E1), None>>, <<None, None, Some(P2)>>,
     <<Some(N2), Some(ENoDot), None>>, <<Some(N2), Some(ENoAt), None>>,
     <<Some(N2), None, Some(PShort)>>}
SeqCreateTaskIn ==
    {<<T1, None, None>>, <<T1, Some(D1), Some(1)>>, <<T1, None, Some(0)>>,
     <<T1, None, Some(-1)>>, <<T1, None, Some(2)>>, <<N0, None, None>>}
SeqUpdateTaskIn ==
    {<<Some(T2), None, None>>, <<Some(N0), None, None>>,
     <<None, Some(N0), None>>, <<None, Some(D1), None>>,
     <<None, None, Some(1)>>, <<None, None, Some(0)>>,
     <<Some(T2), Some(D1), Some(2)>>}
SeqLoginIn == {<<E1, P1>>, <<E1, P2>>, <<ENoAt, P1>>}
SeqPathIds == 1..MaxId

RaceCreateUserIn == {<<N1, E1, P1>>, <<N1, E2, P1>>}
RaceRegisterUserIn == {<<N0, E1, P1>>}
RaceUpdateUserIn == {<<Some(N2), None, None>>, <<None, Some(E2), None>>}
RaceCreateTaskIn == {<<T1, None, None>>, <<T1, None, Some(1)>>}
RaceUpdateTaskIn == {<<Some(T2), None, None>>, <<None, None, Some(1)>>}
RacePathIds == {1}

---------------------------------------------------------------------------
(* Request state *)

NoReq == [op |-> "none"]
Resp(r) == [status |-> r.status, detail |-> r.detail, body |-> r.body]
NoResp == [status |-> 0, detail |-> NoDetail, body |-> NoBody]

\* pc: where the handler stands; req: its arguments; resp: what it returns
\* (pc = "done") or will return; mem: the list it hands to write_file;
\* at: ver of its document when it read it; wt: ver once its write_file
\* completed (0: it wrote nothing)
Idle ==
    [pc |-> "idle", req |-> NoReq, resp |-> NoResp, mem |-> << >>,
     at |-> 0, wt |-> 0]
Done(req, r, at, wt) ==
    [pc |-> "done", req |-> req, resp |-> Resp(r), mem |-> << >>,
     at |-> at, wt |-> wt]
Pending(pc, req, r, mem, at) ==
    [pc |-> pc, req |-> req, resp |-> Resp(r), mem |-> mem, at |-> at, wt |-> 0]

UserReq(op, in) ==
    [op |-> op, name |-> in[1], email |-> in[2], password |-> in[3]]
UserIdReq(op, user_id, in) ==
    [op |-> op, user_id |-> user_id, name |-> in[1], email |-> in[2],
     password |-> in[3]]
TaskReq(op, in) ==
    [op |-> op, title |-> in[1], description |-> in[2], user_id |-> in[3]]
TaskIdReq(op, task_id, in) ==
    [op |-> op, task_id |-> task_id, title |-> in[1], description |-> in[2],
     user_id |-> in[3]]

UserOps ==
    {"create_user", "register_user", "update_user", "delete_user", "get_users",
     "get_user", "login"}
TaskOps == {"create_task", "update_task", "delete_task"}
\* FileOf with delete_user's rewrite landing in the task document
FileOf_delete_on_tasks(op) ==
    IF op \in UserOps \ {"delete_user"} THEN "users" ELSE "tasks"

\* the document a handler reads first and rewrites
FileOf(op) == IF op \in UserOps THEN "users" ELSE "tasks"

Init ==
    /\ usersFile = MissingDoc
    /\ tasksFile = MissingDoc
    /\ up = FALSE
    /\ proc = [p \in Procs |-> Idle]
    /\ served = 0
    /\ ver = [users |-> 0, tasks |-> 0]

\* lifespan: init_files before the first request is served
Startup ==
    /\ ~up
    /\ up' = TRUE
    /\ usersFile' = init_file(usersFile)
    /\ tasksFile' = init_file(tasksFile)
    /\ UNCHANGED <<proc, served, ver>>

\* the process stops once no request is in flight; the documents stay
Shutdown ==
    /\ up
    /\ \A p \in Procs : proc[p].pc \in {"idle", "done"}
    /\ up' = FALSE
    /\ proc' = [p \in Procs |-> Idle]
    /\ UNCHANGED <<usersFile, tasksFile, served, ver>>

\* what a handler's first line gets from read_file, or the 500 it ends in
OnUsers(r) == IF ~Readable(usersFile) THEN ServerError ELSE r
OnTasks(r) == IF ~Readable(tasksFile) THEN ServerError ELSE r

---------------------------------------------------------------------------
(* Sequential execution: each request runs alone, handler start to end.    *)
(* Process 1 holds the request served last and its response.               *)

\* a handler's outcome r applied to its document: write_file(..., r.data)
\* if it got that far, and the response
SeqServe(req, r) ==
    LET f == FileOf(req.op)
        wt == IF r.write THEN ver[f] + 1 ELSE 0
    IN /\ up /\ served < MaxSeqReqs
       /\ served' = served + 1
       /\ up' = up
       /\ ver' = IF r.write THEN [ver EXCEPT ![f] = @ + 1] ELSE ver
       /\ proc' = [proc EXCEPT ![1] = Done(req, r, ver[f], wt)]
       /\ IF f = "users"
          THEN /\ usersFile' = IF r.write THEN write_file(usersFile, r.data)
                               ELSE usersFile
               /\ tasksFile' = tasksFile
          ELSE /\ tasksFile' = IF r.write THEN write_file(tasksFile, r.data)
                               ELSE tasksFile
               /\ usersFile' = usersFile

Seq_create_user ==
    \E in \in SeqCreateUserIn :
        SeqServe(UserReq("create_user", in),
                 IF ~create_user_valid(in[1], in[2], in[3])
                 THEN RequestValidationError
                 ELSE OnUsers(create_user_h(read_file(usersFile),
                                            in[1], in[2], in[3])))

Seq_register_user ==
    \E in \in SeqRegisterUserIn :
        SeqServe(UserReq("register_user", in),
                 IF ~register_user_valid(in[1], in[2], in[3])
                 THEN RequestValidationError
                 ELSE OnUsers(register_user_h(read_file(usersFile),
                                              in[1], in[2], in[3])))

Seq_update_user ==
    \E user_id \in SeqPathIds, in \in SeqUpdateUserIn :
        SeqServe(UserIdReq("update_user", user_id, in),
                 OnUsers(update_user_h(read_file(usersFile), user_id,
                                       in[1], in[2], in[3])))

Seq_delete_user ==
    \E user_id \in SeqPathIds :
        SeqServe([op |-> "delete_user", user_id |-> user_id],
                 OnUsers(delete_user_h(read_file(usersFile), user_id)))

Seq_create_task ==
    \E in \in SeqCreateTaskIn :
        SeqServe(TaskReq("create_task", in),
                 IF ~create_task_valid(in[1]) THEN RequestValidationError
                 ELSE OnUsers(OnTasks(
                          create_task_run(read_file(usersFile),
                                          read_file(tasksFile),
                                          in[1], in[2], in[3]))))

Seq_update_task ==
    \E task_id \in SeqPathIds, in \in SeqUpdateTaskIn :
        SeqServe(TaskIdReq("update_task", task_id, in),
                 OnUsers(OnTasks(
                     update_task_run(read_file(usersFile), read_file(tasksFile),
                                     task_id, in[1], in[2], in[3]))))

Seq_delete_task ==
    \E task_id \in SeqPathIds :
        SeqServe([op |-> "delete_task", task_id |-> task_id],
                 OnTasks(delete_task_h(read_file(tasksFile), task_id)))

Seq_get_user ==
    \E user_id \in SeqPathIds :
        SeqServe([op |-> "get_user", user_id |-> user_id],
                 OnUsers(get_user_h(read_file(usersFile), user_id)))

Seq_login ==
    \E in \in SeqLoginIn :
        SeqServe([op |-> "login", email |-> in[1], password |-> in[2]],
                 IF ~login_valid(in[1], in[2]) THEN RequestValidationError
                 ELSE OnUsers(login_h(read_file(usersFile), in[1], in[2])))

SeqNext ==
    \/ Startup
    \/ Shutdown
    \/ Seq_create_user
    \/ Seq_register_user
    \/ Seq_update_user
    \/ Seq_delete_user
    \/ Seq_create_task
    \/ Seq_update_task
    \/ Seq_delete_task
    \/ Seq_get_user
    \/ Seq_login

SeqSpec == Init /\ [][SeqNext]_vars

---------------------------------------------------------------------------
(* Interleaved execution: process p serves one request at a time; a step   *)
(* runs a handler from one await to the next.                              *)

Free(p) == up /\ served < MaxReqs /\ proc[p].pc \in {"idle", "done"}

\* the handler read its document and got to write_file with r.data, or
\* ended with r
AfterRead(p, req, r) ==
    proc' = [proc EXCEPT ![p] =
                IF r.write
                THEN Pending("wopen", req, r, r.data, ver[FileOf(req.op)])
                ELSE Done(req, r, ver[FileOf(req.op)], 0)]

Begin(p, req, r) ==
    /\ Free(p)
    /\ served' = served + 1
    /\ AfterRead(p, req, r)
    /\ UNCHANGED <<usersFile, tasksFile, up, ver>>

create_user(p) ==
    \E in \in RaceCreateUserIn :
        Begin(p, UserReq("create_user", in),
              IF ~create_user_valid(in[1], in[2], in[3])
              THEN RequestValidationError
              ELSE OnUsers(create_user_h(read_file(usersFile),
                                         in[1], in[2], in[3])))

register_user(p) ==
    \E in \in RaceRegisterUserIn :
        Begin(p, UserReq("register_user", in),
              IF ~register_user_valid(in[1], in[2], in[3])
              THEN RequestValidationError
              ELSE OnUsers(register_user_h(read_file(usersFile),
                                           in[1], in[2], in[3])))

update_user(p) ==
    \E user_id \in RacePathIds, in \in RaceUpdateUserIn :
        Begin(p, UserIdReq("update_user", user_id, in),
              OnUsers(update_user_h(read_file(usersFile), user_id,
                                    in[1], in[2], in[3])))

delete_user(p) ==
    \E user_id \in RacePathIds :
        Begin(p, [op |-> "delete_user", user_id |-> user_id],
              OnUsers(delete_user_h(read_file(usersFile), user_id)))

get_users(p) ==
    Begin(p, [op |-> "get_users"], OnUsers(get_users_h(read_file(usersFile))))

delete_task(p) ==
    \E task_id \in RacePathIds :
        Begin(p, [op |-> "delete_task", task_id |-> task_id],
              OnTasks(delete_task_h(read_file(tasksFile), task_id)))

\* create_task to its first read: validate_user's read of the users when
\* user_id is truthy, else the read of the tasks
create_task(p) ==
    \E in \in RaceCreateTaskIn :
        LET req == TaskReq("create_task", in)
        IN /\ Free(p)
           /\ served' = served + 1
           /\ UNCHANGED <<usersFile, tasksFile, up, ver>>
           /\ IF ~create_task_valid(in[1])
              THEN proc' = [proc EXCEPT ![p] =
                               Done(req, RequestValidationError, 0, 0)]
              ELSE IF ~create_task_validates(in[3])
              THEN AfterRead(p, req,
                       OnTasks(create_task_h(read_file(tasksFile),
                                             in[1], in[2], in[3])))
              ELSE IF ~Readable(usersFile)
              THEN proc' = [proc EXCEPT ![p] = Done(req, ServerError, 0, 0)]
              ELSE IF ~validate_user(read_file(usersFile), in[3].val)
              THEN proc' = [proc EXCEPT ![p] =
                               Done(req, validate_user_error(in[3].val), 0, 0)]
              ELSE proc' = [proc EXCEPT ![p] =
                               [Idle EXCEPT !.pc = "read_tasks", !.req = req]]

\* create_task after validate_user returned: the read of the tasks
create_task_read(p) ==
    /\ proc[p].pc = "read_tasks"
    /\ LET req == proc[p].req
       IN AfterRead(p, req,
              OnTasks(create_task_h(read_file(tasksFile), req.title,
                                    req.description, req.user_id)))
    /\ UNCHANGED <<usersFile, tasksFile, up, served, ver>>

\* update_task to the await of validate_user (or to write_file)
update_task(p) ==
    \E task_id \in RacePathIds, in \in RaceUpdateTaskIn :
        LET req == TaskIdReq("update_task", task_id, in)
            r1 == OnTasks(update_task_h(read_file(tasksFile), task_id,
                                        in[1], in[2]))
        IN /\ Free(p)
           /\ served' = served + 1
           /\ UNCHANGED <<usersFile, tasksFile, up, ver>>
           /\ IF r1.status # 200 \/ ~in[3].some
              THEN AfterRead(p, req, r1)
              ELSE proc' = [proc EXCEPT ![p] =
                               Pending("validate", req, r1, r1.data, ver.tasks)]

\* update_task's validate_user: the read of the users, then the assignment
update_task_validate(p) ==
    /\ proc[p].pc = "validate"
    /\ LET req == proc[p].req
           r == IF ~Readable(usersFile) THEN ServerError
                ELSE IF ~validate_user(read_file(usersFile), req.user_id.val)
                THEN validate_user_error(req.user_id.val)
                ELSE update_task_set_user(proc[p].mem, req.task_id, req.user_id)
       IN proc' = [proc EXCEPT ![p] =
                      IF r.write THEN Pending("wopen", req, r, r.data, proc[p].at)
                      ELSE Done(req, r, proc[p].at, 0)]
    /\ UNCHANGED <<usersFile, tasksFile, up, served, ver>>

\* write_file's open
WriteOpen(p) ==
    /\ proc[p].pc = "wopen"
    /\ proc' = [proc EXCEPT ![p].pc = "wflush"]
    /\ IF FileOf(proc[p].req.op) = "users"
       THEN usersFile' = write_open(usersFile) /\ tasksFile' = tasksFile
       ELSE tasksFile' = write_open(tasksFile) /\ usersFile' = usersFile
    /\ UNCHANGED <<up, served, ver>>

\* write_file's write and close, and the handler's return
WriteFlush(p) ==
    LET f == FileOf(proc[p].req.op)
    IN /\ proc[p].pc = "wflush"
       /\ proc' = [proc EXCEPT ![p].pc = "done", ![p].mem = << >>,
                               ![p].wt = ver[f] + 1]
       /\ ver' = [ver EXCEPT ![f] = @ + 1]
       /\ IF f = "users"
          THEN /\ usersFile' = write_flush(usersFile, proc[p].mem)
               /\ tasksFile' = tasksFile
          ELSE /\ tasksFile' = write_flush(tasksFile, proc[p].mem)
               /\ usersFile' = usersFile
       /\ UNCHANGED <<up, served>>

Next ==
    \/ Startup
    \/ Shutdown
    \/ \E p \in Procs :
        \/ create_user(p)
        \/ register_user(p)
        \/ update_user(p)
        \/ delete_user(p)
        \/ get_users(p)
        \/ create_task(p)
        \/ create_task_read(p)
        \/ update_task(p)
        \/ update_task_validate(p)
        \/ delete_task(p)
        \/ WriteOpen(p)
        \/ WriteFlush(p)

Spec == Init /\ [][Next]_vars

---------------------------------------------------------------------------
(* Properties *)

\* under SeqSpec: the request served last
Last == proc[1]
\* this step begins a request
Served == served' = served + 1

UniqueEmails(recs) ==
    \A i, j \in DOMAIN recs : i # j => recs[i].email # recs[j].email
UniqueIds(recs) ==
    \A i, j \in DOMAIN recs : i # j => recs[i].id # recs[j].id
RemoveAt(s, i) == SubSeq(s, 1, i - 1) \o SubSeq(s, i + 1, Len(s))

\* C1: in every state reached by create_user, register_user, update_user and
\* delete_user requests, no two records of the persisted user collection have
\* the same email.  (Fails: update_user sets an email another user holds.)
C1_UserEmailsUnique ==
    Readable(usersFile) => UniqueEmails(usersFile.recs)

\* C2: whenever create_task or update_task writes a task whose user_id the
\* request set to a present value, the user collection, as persisted at the
\* moment of the write, holds a user with that id, under every interleaving.
\* (Fails: a delete_user completes between validate_user's read and the write.)
C2_UserExistsWhenTaskWritten ==
    [][\A p \in Procs :
          (/\ proc[p].pc = "wflush" /\ proc'[p].pc = "done"
           /\ proc[p].req.op \in {"create_task", "update_task"}
           /\ proc[p].req.user_id.some
           /\ Readable(usersFile))
          => HasId(usersFile.recs, proc[p].req.user_id.val)]_vars

\* C3: in sequential execution, after the record with the highest id is
\* deleted, the next record created does not receive the deleted id, in either
\* collection.  (Fails: max(remaining ids) + 1 is the deleted id.)
C3_DeletedIdNotReused ==
    [][/\ (/\ Last.pc = "done" /\ Last.req.op = "delete_user"
           /\ Last.resp.status = 200
           /\ Readable(usersFile)
           /\ \A i \in DOMAIN usersFile.recs :
                 usersFile.recs[i].id < Last.req.user_id
           /\ Served
           /\ proc'[1].req.op \in {"create_user", "register_user"}
           /\ proc'[1].resp.status = 200)
          => proc'[1].resp.body.id # Last.req.user_id
       /\ (/\ Last.pc = "done" /\ Last.req.op = "delete_task"
           /\ Last.resp.status = 200
           /\ Readable(tasksFile)
           /\ \A i \in DOMAIN tasksFile.recs :
                 tasksFile.recs[i].id < Last.req.task_id
           /\ Served
           /\ proc'[1].req.op = "create_task"
           /\ proc'[1].resp.status = 200)
          => proc'[1].resp.body.id # Last.req.task_id]_vars

\* C4: in sequential execution, create_task with an integer user_id that
\* matches no id of the user collection ends with the 400 error and leaves
\* the task collection as it was.  (Fails for user_id = 0: "if user_id:".)
C4_CreateTaskUnknownUserFails ==
    [][(/\ Served
        /\ proc'[1].req.op = "create_task"
        /\ create_task_valid(proc'[1].req.title)
        /\ proc'[1].req.user_id.some
        /\ Readable(usersFile) /\ Readable(tasksFile)
        /\ ~HasId(usersFile.recs, proc'[1].req.user_id.val))
       => /\ proc'[1].resp.status = 400
          /\ tasksFile' = tasksFile]_vars

\* C5: in sequential execution, create_user and register_user reached with an
\* email that a record of the user collection already has end with the 400
\* error "Email already registered" and leave both collections as they were.
C5_DuplicateEmailRejected ==
    [][(/\ Served
        /\ Readable(usersFile)
        /\ \/ /\ proc'[1].req.op = "create_user"
              /\ create_user_valid(proc'[1].req.name, proc'[1].req.email,
                                   proc'[1].req.password)
           \/ /\ proc'[1].req.op = "register_user"
              /\ register_user_valid(proc'[1].req.name, proc'[1].req.email,
                                     proc'[1].req.password)
        /\ \E i \in DOMAIN usersFile.recs :
              usersFile.recs[i].email = proc'[1].req.email)
       => /\ proc'[1].resp.status = 400
          /\ proc'[1].resp.detail.text = "Email already registered"
          /\ usersFile' = usersFile
          /\ tasksFile' = tasksFile]_vars

\* C5 witness: a create_user for an email the collection holds was refused
C5_Witness ==
    /\ Last.pc = "done" /\ Last.req.op = "create_user"
    /\ Last.resp.status = 400
    /\ Readable(usersFile)
    /\ \E i \in DOMAIN usersFile.recs : usersFile.recs[i].email = Last.req.email

\* under Spec: p and q both served a create on the user collection, both
\* read the same version of the document (so each read before the other
\* wrote), p's write came first and q's is the latest write on the document
RacedUserCreates(p, q) ==
    /\ p # q
    /\ proc[p].pc = "done" /\ proc[q].pc = "done"
    /\ proc[p].req.op \in {"create_user", "register_user"}
    /\ proc[q].req.op \in {"create_user", "register_user"}
    /\ proc[p].resp.status = 200 /\ proc[q].resp.status = 200
    /\ proc[p].at = proc[q].at
    /\ proc[p].wt < proc[q].wt /\ proc[q].wt = ver.users
    /\ Readable(usersFile)

RacedTaskCreates(p, q) ==
    /\ p # q
    /\ proc[p].pc = "done" /\ proc[q].pc = "done"
    /\ proc[p].req.op = "create_task" /\ proc[q].req.op = "create_task"
    /\ proc[p].resp.status = 200 /\ proc[q].resp.status = 200
    /\ proc[p].at = proc[q].at
    /\ proc[p].wt < proc[q].wt /\ proc[q].wt = ver.tasks
    /\ Readable(tasksFile)

\* the records of recs with this id
WithId(recs, id) == {i \in DOMAIN recs : recs[i].id = id}

\* C6: two creates on the same collection that both read it before either
\* wrote both return success with the same new id, and the collection the
\* last writer leaves holds one record with that id, the last writer's: the
\* first writer's record is lost.
C6_LostUpdate ==
    \A p, q \in Procs :
        /\ RacedUserCreates(p, q) =>
              /\ proc[p].resp.body.id = proc[q].resp.body.id
              /\ \E i \in DOMAIN usersFile.recs :
                    /\ WithId(usersFile.recs, proc[q].resp.body.id) = {i}
                    /\ usersFile.recs[i] =
                          [id |-> proc[q].resp.body.id,
                           name |-> proc[q].req.name,
                           email |-> proc[q].req.email,
                           password |-> proc[q].req.password]
        /\ RacedTaskCreates(p, q) =>
              /\ proc[p].resp.body.id = proc[q].resp.body.id
              /\ \E i \in DOMAIN tasksFile.recs :
                    /\ WithId(tasksFile.recs, proc[q].resp.body.id) = {i}
                    /\ tasksFile.recs[i] = proc[q].resp.body

\* C6 witness: two raced create_user requests for different emails have both
\* returned 200 with the same id, and no record has the first writer's email
C6_Witness ==
    \E p, q \in Procs :
        /\ RacedUserCreates(p, q)
        /\ proc[p].req.email # proc[q].req.email
        /\ proc[p].resp.body.id = proc[q].resp.body.id
        /\ ~EmailTaken(usersFile.recs, proc[p].req.email)

\* C7: in sequential execution, a request that ends with 400 or 404 leaves
\* both persisted collections exactly as they were.
C7_ErrorsPersistNothing ==
    [][(Served /\ proc'[1].resp.status \in {400, 404})
       => (usersFile' = usersFile /\ tasksFile' = tasksFile)]_vars

\* C7 witness: update_user with a new name and a malformed email ended with
\* 400, and the user it names still has another name
C7_Witness ==
    /\ Last.pc = "done" /\ Last.req.op = "update_user"
    /\ Last.resp.status = 400
    /\ Last.req.name = Some(N2)
    /\ Readable(usersFile)
    /\ \E i \in DOMAIN usersFile.recs :
          /\ usersFile.recs[i].id = Last.req.user_id
          /\ usersFile.recs[i].name # N2

\* C8: in every reachable state, under any interleaving of create, update and
\* delete requests, no two records of one persisted collection have the same
\* id.
C8_IdsUnique ==
    /\ Readable(usersFile) => UniqueIds(usersFile.recs)
    /\ Readable(tasksFile) => UniqueIds(tasksFile.recs)

\* C8 witness: the user collection holds two records, left by a request
\* whose write came after another write that followed its read
C8_Witness ==
    /\ Readable(usersFile) /\ Len(usersFile.recs) >= 2
    /\ \E p \in Procs :
          /\ proc[p].pc = "done" /\ proc[p].req.op \in UserOps
          /\ proc[p].wt = ver.users
          /\ proc[p].wt > proc[p].at + 1

\* C9: in every state reached by create_user, register_user and update_user
\* requests, every persisted user has a non-empty name, an email containing
\* "@" and ".", and a password of at least 6 characters.  (Fails:
\* register_user accepts an empty name.)
C9_UserRecordsValid ==
    Readable(usersFile) =>
        \A i \in DOMAIN usersFile.recs :
            /\ usersFile.recs[i].name # << >>
            /\ Contains(usersFile.recs[i].email, "@")
            /\ Contains(usersFile.recs[i].email, ".")
            /\ Len(usersFile.recs[i].password) >= 6

\* what a delete of id does to a collection: 404 and nothing when no record
\* has the id; else 200 and the one record with the id taken out, the others
\* staying in their order
DeleteEffect(old, new, id, status) ==
    IF ~HasId(old, id) THEN status = 404 /\ new = old
    ELSE /\ status = 200
         /\ \E i \in DOMAIN old : old[i].id = id /\ new = RemoveAt(old, i)

\* C10: in sequential execution, delete_user and delete_task with an id no
\* record has end with 404 and leave the collection unchanged; with an id a
\* record has, they remove exactly that record and keep the others in order.
C10_DeleteRemovesExactlyOne ==
    [][/\ (Served /\ proc'[1].req.op = "delete_user" /\ Readable(usersFile))
          => /\ Readable(usersFile')
             /\ DeleteEffect(usersFile.recs, usersFile'.recs,
                             proc'[1].req.user_id, proc'[1].resp.status)
             /\ tasksFile' = tasksFile
       /\ (Served /\ proc'[1].req.op = "delete_task" /\ Readable(tasksFile))
          => /\ Readable(tasksFile')
             /\ DeleteEffect(tasksFile.recs, tasksFile'.recs,
                             proc'[1].req.task_id, proc'[1].resp.status)
             /\ usersFile' = usersFile]_vars

\* C10 witness: delete_task took the middle one of three tasks out
C10_Witness ==
    /\ Last.pc = "done" /\ Last.req.op = "delete_task"
    /\ Last.resp.status = 200 /\ Last.req.task_id = 2
    /\ Readable(tasksFile) /\ Len(tasksFile.recs) = 2
    /\ tasksFile.recs[1].id = 1 /\ tasksFile.recs[2].id = 3


\* the record of recs that a request naming id reads and updates
RecOf(recs, id) == recs[FirstIdx(recs, id)]

\* C11: in sequential execution, a successful update_task takes the
\* description by presence: given (the empty string included) it becomes the
\* persisted description, not given the persisted description stays; a title
\* that is not given or empty leaves the persisted title as it was.
C11_DescriptionByPresence ==
    [][(/\ Served
        /\ proc'[1].req.op = "update_task"
        /\ proc'[1].resp.status = 200
        /\ Readable(tasksFile))
       => LET req == proc'[1].req
              old == RecOf(tasksFile.recs, req.task_id)
          IN /\ Readable(tasksFile')
             /\ HasId(tasksFile'.recs, req.task_id)
             /\ LET new == RecOf(tasksFile'.recs, req.task_id)
                IN /\ new.description =
                         IF req.description.some THEN req.description
                         ELSE old.description
                   /\ ~TruthyStr(req.title) => new.title = old.title]_vars

\* C11 witness: update_task given the empty description has returned 200 and
\* the task it names is persisted with the empty description and its title
C11_Witness ==
    /\ Last.pc = "done" /\ Last.req.op = "update_task"
    /\ Last.resp.status = 200
    /\ Last.req.description = Some(N0)
    /\ Last.at > 0
    /\ Readable(tasksFile)
    /\ HasId(tasksFile.recs, Last.req.task_id)
    /\ RecOf(tasksFile.recs, Last.req.task_id).description = Some(N0)
    /\ RecOf(tasksFile.recs, Last.req.task_id).title = T1

\* C12: in sequential execution, a login that reaches the handler and matches
\* no stored user on both email and password ends with the one 400 response
\* "Invalid email or password", whether or not a stored user has the email;
\* a login that returns 200 matches a stored user on both and returns that
\* user's id; and login leaves both collections as they were.
C12_LoginFailsUniformly ==
    [][(Served /\ proc'[1].req.op = "login" /\ Readable(usersFile))
       => LET req == proc'[1].req
              users == usersFile.recs
              hits == LoginMatches(users, req.email, req.password)
          IN /\ usersFile' = usersFile /\ tasksFile' = tasksFile
             /\ (login_valid(req.email, req.password) /\ hits = {})
                   => proc'[1].resp =
                        Resp(ValidationError(
                                 Detail("Invalid email or password", << >>)))
             /\ proc'[1].resp.status = 200
                   => \E i \in hits :
                         proc'[1].resp.body.user_id = users[i].id]_vars

\* C12 witness: a login with the email of a stored user and another password
\* ended with 400
C12_Witness ==
    /\ Last.pc = "done" /\ Last.req.op = "login"
    /\ Last.resp.status = 400
    /\ Readable(usersFile)
    /\ EmailTaken(usersFile.recs, Last.req.email)

\* new is old with nothing touched but the fields, other than the id, of the
\* record the request naming id updates
OnlyRecChanged(old, new, id) ==
    /\ HasId(old, id)
    /\ Len(new) = Len(old)
    /\ \A j \in DOMAIN old : j # FirstIdx(old, id) => new[j] = old[j]
    /\ new[FirstIdx(old, id)].id = id

\* C13: in sequential execution, a successful update_user or update_task
\* naming id X changes, in its collection, only the record with id X, and of
\* that record only the fields the request gives (name and title only when
\* non-empty), never the id; the number and order of the records stay, and
\* the other collection stays as it was.
C13_UpdateChangesOnlyGivenFields ==
    [][/\ (/\ Served /\ proc'[1].req.op = "update_user"
           /\ proc'[1].resp.status = 200 /\ Readable(usersFile))
          => LET req == proc'[1].req
                 old == RecOf(usersFile.recs, req.user_id)
                 new == RecOf(usersFile'.recs, req.user_id)
             IN /\ Readable(usersFile')
                /\ tasksFile' = tasksFile
                /\ OnlyRecChanged(usersFile.recs, usersFile'.recs, req.user_id)
                /\ ~TruthyStr(req.name) => new.name = old.name
                /\ ~req.email.some => new.email = old.email
                /\ ~req.password.some => new.password = old.password
       /\ (/\ Served /\ proc'[1].req.op = "update_task"
           /\ proc'[1].resp.status = 200 /\ Readable(tasksFile))
          => LET req == proc'[1].req
                 old == RecOf(tasksFile.recs, req.task_id)
                 new == RecOf(tasksFile'.recs, req.task_id)
             IN /\ Readable(tasksFile')
                /\ usersFile' = usersFile
                /\ OnlyRecChanged(tasksFile.recs, tasksFile'.recs, req.task_id)
                /\ ~TruthyStr(req.title) => new.title = old.title
                /\ ~req.description.some => new.description = old.description
                /\ ~req.user_id.some => new.user_id = old.user_id]_vars

\* C13 witness: update_task given only a user_id has set it on the second of
\* two tasks, and the first task still has none
C13_Witness ==
    /\ Last.pc = "done" /\ Last.req.op = "update_task"
    /\ Last.resp.status = 200
    /\ Last.req.task_id = 2
    /\ Last.req.title = None /\ Last.req.description = None
    /\ Last.req.user_id = Some(1)
    /\ Readable(tasksFile) /\ Len(tasksFile.recs) = 2
    /\ tasksFile.recs[1] =
          [id |-> 1, title |-> T1, description |-> None, user_id |-> None]
    /\ tasksFile.recs[2] =
          [id |-> 2, title |-> T1, description |-> None, user_id |-> Some(1)]

\* C14: in sequential execution, a successful create_user or register_user
\* answers with id, name and email and nothing else, and a get_user served
\* next with the id it returned answers 200 with a record that has the name
\* and the email of the create.
C14_CreateThenGet ==
    [][/\ (/\ Served
           /\ proc'[1].req.op \in {"create_user", "register_user"}
           /\ proc'[1].resp.status = 200)
          => DOMAIN proc'[1].resp.body = {"id", "name", "email"}
       /\ (/\ Last.pc = "done"
           /\ Last.req.op \in {"create_user", "register_user"}
           /\ Last.resp.status = 200
           /\ Served
           /\ proc'[1].req.op = "get_user"
           /\ proc'[1].req.user_id = Last.resp.body.id)
          => /\ proc'[1].resp.status = 200
             /\ proc'[1].resp.body.name = Last.req.name
             /\ proc'[1].resp.body.email = Last.req.email]_vars

\* C14 witness: two users were created and get_user, served third, answered
\* with the second one
C14_Witness ==
    /\ Last.pc = "done" /\ Last.req.op = "get_user"
    /\ Last.resp.status = 200
    /\ Last.req.user_id = 2
    /\ served = 3 /\ ver.users = 2
    /\ Readable(usersFile) /\ Len(usersFile.recs) = 2
    /\ Last.resp.body = usersFile.recs[2]
    /\ Last.resp.body.id = 2

\* C15: under any interleaving, write_file's open leaves its document empty,
\* which is neither the collection it held (not even the empty array) nor the
\* collection being written, until a write lands; and a get_users that reads
\* the user document while it does not parse ends with 500 instead of a
\* collection.
C15_ReaderSeesTruncatedDocument ==
    [][\A p \in Procs :
          /\ (/\ proc[p].pc = "wopen" /\ proc'[p].pc = "wflush"
              /\ FileOf(proc[p].req.op) = "users")
             => /\ ~Readable(usersFile')
                /\ usersFile' # Doc(proc[p].mem)
                /\ Readable(usersFile) => usersFile' # usersFile
          /\ (/\ proc[p].pc = "wopen" /\ proc'[p].pc = "wflush"
              /\ FileOf(proc[p].req.op) = "tasks")
             => /\ ~Readable(tasksFile')
                /\ tasksFile' # Doc(proc[p].mem)
                /\ Readable(tasksFile) => tasksFile' # tasksFile
          /\ (/\ Free(p) /\ Served /\ proc'[p] # proc[p]
              /\ proc'[p].req.op = "get_users"
              /\ ~Readable(usersFile))
             => proc'[p].resp.status = 500]_vars

\* C15 witness: q has opened the user document for its write and not written
\* yet, and p's get_users, which read the document after q read it and
\* before any further write, ended with 500
C15_Witness ==
    \E p, q \in Procs :
        /\ proc[q].pc = "wflush" /\ FileOf(proc[q].req.op) = "users"
        /\ usersFile = EmptyDoc
        /\ proc[p].pc = "done" /\ proc[p].req.op = "get_users"
        /\ proc[p].resp.status = 500
        /\ proc[p].at = ver.users /\ proc[q].at = ver.users

\* C16: every startup sets a missing collection document to the empty array
\* and leaves a document that exists as it is, so the records a document
\* held when the application stopped are the records it holds once the
\* application is up again.
C16_StartupKeepsDocuments ==
    [][(~up /\ up')
       => /\ usersFile' = IF usersFile.st = "missing" THEN Doc(<< >>)
                          ELSE usersFile
          /\ tasksFile' = IF tasksFile.st = "missing" THEN Doc(<< >>)
                          ELSE tasksFile
          /\ Readable(usersFile)
                => Readable(usersFile') /\ usersFile'.recs = usersFile.recs
          /\ Readable(tasksFile)
                => Readable(tasksFile') /\ tasksFile'.recs = tasksFile.recs]_vars

\* C16 witness: the application served requests, stopped and is up again,
\* and both documents still hold a record
C16_Witness ==
    /\ up /\ served > 0
    /\ \A p \in Procs : proc[p].pc = "idle"
    /\ Readable(usersFile) /\ Len(usersFile.recs) > 0
    /\ Readable(tasksFile) /\ Len(tasksFile.recs) > 0

\* C17: under any interleaving, no step of a user request changes the task
\* document and no step of a task request changes the user document; in
\* particular the write of a delete_user leaves every task whose user_id is
\* the deleted id in the task collection, in its place and as it was.
C17_CollectionsIndependent ==
    [][\A p \in Procs :
          /\ (proc'[p] # proc[p] /\ proc'[p].req.op \in UserOps)
             => tasksFile' = tasksFile
          /\ (proc'[p] # proc[p] /\ proc'[p].req.op \in TaskOps)
             => usersFile' = usersFile
          /\ (/\ proc[p].pc = "wflush" /\ proc'[p].pc = "done"
              /\ proc[p].req.op = "delete_user"
              /\ Readable(tasksFile))
             => /\ Readable(tasksFile')
                /\ \A j \in DOMAIN tasksFile.recs :
                      tasksFile.recs[j].user_id = Some(proc[p].req.user_id)
                         => /\ j \in DOMAIN tasksFile'.recs
                            /\ tasksFile'.recs[j] = tasksFile.recs[j]]_vars

\* C17 witness: delete_user has removed a user, its write is the latest on
\* the user document, and the task collection holds a task with that user_id
C17_Witness ==
    \E p \in Procs :
        /\ proc[p].pc = "done" /\ proc[p].req.op = "delete_user"
        /\ proc[p].resp.status = 200
        /\ proc[p].wt = ver.users
        /\ Readable(usersFile)
        /\ ~HasId(usersFile.recs, proc[p].req.user_id)
        /\ Readable(tasksFile)
        /\ \E j \in DOMAIN tasksFile.recs :
              tasksFile.recs[j].user_id = Some(proc[p].req.user_id)

====
